---- MODULE Spec2Model ----
(***************************************************************************)
(* Model of tasks.py: the fleet tasks deploy, build_local, reboot and      *)
(* cleanup_gcroots, with host resolution (get_hosts), the per-host deploy  *)
(* unit, the group runs of deploykit's DeployGroup as tasks.py uses them,  *)
(* and the readiness poller wait_for_port.                                  *)
(*                                                                         *)
(* Python strings are sequences of one-character strings, so that split,   *)
(* "in" and concatenation are computed character by character.             *)
(***************************************************************************)
EXTENDS Integers, Sequences, FiniteSets, TLC

VARIABLES
    task,        \* the invoked task
    hosts,       \* the --hosts argument
    flake_show,  \* what "nix flake show --json" answered, once queried
    targets,     \* the list get_hosts returned
    pc,          \* position of the task's main thread
    tpc,         \* position of each per-host thread of a group run
    path,        \* per host: data["path"] once the archive answer was parsed
    results,     \* per host: the HostResult of the current group run
    calls,       \* per host: how often each external command was invoked
    gcmd,        \* cleanup_gcroots: which of its two group commands runs
    idx,         \* reboot: index of the host of the current loop iteration
    probes,      \* reboot: connection attempts of the current wait_for_port
    trace,       \* reboot: remote commands and probes, in order of occurrence
    cmdline,     \* per host: the command lines the deploy or build unit issued
    last_probe,  \* reboot: how the latest connection attempt ended
    net          \* per host: reachability of the ssh port, where it is followed

vars == <<task, hosts, flake_show, targets, pc, tpc, path, results, calls,
          gcmd, idx, probes, trace, cmdline, last_probe, net>>

(***************************************************************************)
(* Bounds                                                                  *)
(***************************************************************************)
\* most tokens of a --hosts argument, most names of an inventory
MaxHosts == 2
\* most connection attempts followed within one wait_for_port call
MaxProbes == 2

(***************************************************************************)
(* Strings                                                                 *)
(***************************************************************************)
Comma == ","

Darwin == <<"d", "a", "r", "w", "i", "n">>

Darwin01 == <<"d", "a", "r", "w", "i", "n", "0", "1">>

Darwin02 == <<"d", "a", "r", "w", "i", "n", "0", "2">>

Build01 == <<"b", "u", "i", "l", "d", "0", "1">>

Build02 == <<"b", "u", "i", "l", "d", "0", "2">>

DomainSuffix ==
    <<".", "n", "i", "x", "-", "c", "o", "m", "m", "u", "n", "i", "t", "y",
      ".", "o", "r", "g">>

\* Python's  sub in s
Contains(s, sub) ==
    \E i \in 1..(Len(s) - Len(sub) + 1) : SubSeq(s, i, i + Len(sub) - 1) = sub

\* Python's  s.split(",")
RECURSIVE SplitComma(_)
SplitComma(s) ==
    IF \A i \in 1..Len(s) : s[i] # Comma
    THEN <<s>>
    ELSE LET i == CHOOSE k \in 1..Len(s) :
                      s[k] = Comma /\ \A j \in 1..(k - 1) : s[j] # Comma
         IN  <<SubSeq(s, 1, i - 1)>> \o SplitComma(SubSeq(s, i + 1, Len(s)))

\* a host named with its domain already attached
Build01Full == Build01 \o DomainSuffix

\* the names a token or an inventory entry is drawn from
Names == {Build01, Build02, Darwin01, Darwin02, Build01Full}

\* token lists of at most MaxHosts tokens
TokenSeqs == UNION {[1..n -> Names] : n \in 0..MaxHosts}

\* ",".join(ts)
RECURSIVE JoinComma(_)
JoinComma(ts) ==
    IF Len(ts) = 0 THEN <<>>
    ELSE IF Len(ts) = 1 THEN ts[1]
    ELSE ts[1] \o <<Comma>> \o JoinComma(Tail(ts))

\* the --hosts arguments considered
HostSpecs == {JoinComma(ts) : ts \in TokenSeqs}

(***************************************************************************)
(* get_hosts                                                               *)
(***************************************************************************)
\* login of a DeployHost built without user=
NoUser == "none"

DeployHost(host, user) == [host |-> host, user |-> user]

\* key lists of a JSON object: configuration names, no name twice
InventoryKeys ==
    {ns \in TokenSeqs :
        /\ \A a \in 1..Len(ns) : ns[a] # Build01Full
        /\ \A a, b \in 1..Len(ns) : a # b => ns[a] # ns[b]}

\* answers of "nix flake show --json --all-systems": exit status, whether
\* stdout parses as JSON, and the parsed object as a set of <<key, value>>
FlakeShowResponses ==
    {[queried |-> TRUE, rc |-> 1, valid |-> FALSE, obj |-> {}],
     [queried |-> TRUE, rc |-> 0, valid |-> FALSE, obj |-> {}],
     [queried |-> TRUE, rc |-> 0, valid |-> TRUE, obj |-> {<<"packages", <<>>>>}]}
    \cup {[queried |-> TRUE, rc |-> 0, valid |-> TRUE,
           obj |-> {<<"nixosConfigurations", ns>>}] : ns \in InventoryKeys}

NotQueried == [queried |-> FALSE, rc |-> 0, valid |-> FALSE, obj |-> {}]

HasKey(obj, key) == \E kv \in obj : kv[1] = key

Lookup(obj, key) == (CHOOSE kv \in obj : kv[1] = key)[2]

\* subprocess.run(check=True), json.loads and data["nixosConfigurations"]
\* each raise on their failure
InventoryRaisesMissingTolerated(resp) == resp.rc # 0 \/ ~resp.valid

InventoryRaises(resp) ==
    resp.rc # 0 \/ ~resp.valid \/ ~HasKey(resp.obj, "nixosConfigurations")

InventoryHosts(resp) ==
    IF HasKey(resp.obj, "nixosConfigurations")
    THEN LET systems == Lookup(resp.obj, "nixosConfigurations")
         IN  [k \in 1..Len(systems) |-> DeployHost(systems[k] \o DomainSuffix, NoUser)]
    ELSE <<>>

ExplicitHostsSingleDarwin(h) ==
    IF Contains(h, Darwin)
    THEN [k \in 1..1 |-> DeployHost(SplitComma(h)[1] \o DomainSuffix, "hetzner")]
    ELSE [k \in 1..Len(SplitComma(h)) |->
             DeployHost(SplitComma(h)[k] \o DomainSuffix, NoUser)]

\* get_hosts for hosts # ""
ExplicitHosts(h) ==
    IF Contains(h, Darwin)
    THEN IF h = Darwin01
         THEN <<DeployHost(Darwin01 \o DomainSuffix, "customer")>>
         ELSE [k \in 1..Len(SplitComma(h)) |->
                  DeployHost(SplitComma(h)[k] \o DomainSuffix, "hetzner")]
    ELSE [k \in 1..Len(SplitComma(h)) |->
             DeployHost(SplitComma(h)[k] \o DomainSuffix, NoUser)]

(***************************************************************************)
(* Command lines of the deploy and build units                             *)
(***************************************************************************)
\* Python's  s.replace(old, "")
RECURSIVE Remove(_, _)
Remove(s, old) ==
    IF Len(s) < Len(old) THEN s
    ELSE IF SubSeq(s, 1, Len(old)) = old
    THEN Remove(SubSeq(s, Len(old) + 1, Len(s)), old)
    ELSE <<s[1]>> \o Remove(Tail(s), old)

\* "darwin" in h.host
IsDarwin(h) == Contains(h.host, Darwin)

\* command of deploy
CommandAlwaysSudo(h) == "sudo nixos-rebuild"

Command(h) == IF IsDarwin(h) THEN "darwin-rebuild" ELSE "sudo nixos-rebuild"

\* target of deploy, the part of ssh://{target} before and after the "@";
\* no userinfo when the target is the bare host
Target(h) ==
    IF IsDarwin(h) THEN [userinfo |-> h.user, host |-> h.host]
    ELSE [userinfo |-> "", host |-> h.host]

\* hostname of deploy
DeployHostname(h) == Remove(h.host, DomainSuffix)

\* hostname of build_local
BuildHostname(h) == Remove(h.host, DomainSuffix)

\* f"{command} switch --option accept-flake-config true --flake {path}#{hostname}"
SwitchLine(h, p) == [command |-> Command(h), path |-> p, attr |-> DeployHostname(h)]

\* no command line issued yet
NoLines ==
    [to |-> [userinfo |-> "", host |-> <<>>],
     switch |-> [command |-> "", path |-> "none", attr |-> <<>>],
     build |-> <<>>]

(***************************************************************************)
(* Initial state and host resolution                                       *)
(***************************************************************************)
Tasks == {"deploy", "build_local", "reboot", "cleanup_gcroots"}

NoCalls ==
    [archive |-> 0, switch |-> 0, build |-> 0, gc1 |-> 0, gc2 |-> 0, reboot |-> 0]

Init ==
    /\ task \in Tasks
    /\ hosts \in HostSpecs
    /\ flake_show = NotQueried
    /\ targets = <<>>
    /\ pc = "get_hosts"
    /\ tpc = <<>>
    /\ path = <<>>
    /\ results = <<>>
    /\ calls = <<>>
    /\ gcmd = 1
    /\ idx = 1
    /\ probes = 0
    /\ trace = <<>>
    /\ cmdline = <<>>
    /\ last_probe = "none"
    /\ net = <<>>

\* the per-host bookkeeping once the target list exists
Resolved(ts) ==
    /\ targets' = ts
    /\ tpc' = [i \in 1..Len(ts) |-> "idle"]
    /\ path' = [i \in 1..Len(ts) |-> "none"]
    /\ results' = [i \in 1..Len(ts) |-> "unset"]
    /\ calls' = [i \in 1..Len(ts) |-> NoCalls]
    /\ cmdline' = [i \in 1..Len(ts) |-> NoLines]
    /\ net' = [i \in 1..Len(ts) |-> "running"]
    /\ pc' = "resolved"

\* get_hosts(hosts) with hosts == "": the inventory query
GetHostsInventory ==
    /\ pc = "get_hosts"
    /\ hosts = <<>>
    /\ \E resp \in FlakeShowResponses :
          /\ flake_show' = resp
          /\ IF InventoryRaises(resp)
             THEN /\ pc' = "aborted"
                  /\ UNCHANGED <<targets, tpc, path, results, calls, cmdline, net>>
             ELSE Resolved(InventoryHosts(resp))
    /\ UNCHANGED <<last_probe, task, hosts, gcmd, idx, probes, trace>>

\* get_hosts(hosts) with an explicit list
GetHostsExplicit ==
    /\ pc = "get_hosts"
    /\ hosts # <<>>
    /\ Resolved(ExplicitHosts(hosts))
    /\ UNCHANGED <<last_probe, task, hosts, flake_show, gcmd, idx, probes, trace>>

(***************************************************************************)
(* Group runs: DeployGroup.run_function and DeployGroup.run                *)
(***************************************************************************)
N == Len(targets)

Hosts == 1..N

\* the first step of the per-host function of a task
FirstStepAsDeploy(t) == IF t = "cleanup_gcroots" THEN "remote" ELSE "archive"

FirstStep(t) ==
    CASE t = "deploy" -> "archive"
      [] t = "build_local" -> "build"
      [] t = "cleanup_gcroots" -> "remote"

\* one thread per host is started, each with no result set yet
StartGroup ==
    /\ pc = "resolved"
    /\ task \in {"deploy", "build_local", "cleanup_gcroots"}
    /\ tpc' = [i \in Hosts |-> FirstStep(task)]
    /\ results' = [i \in Hosts |-> "unset"]
    /\ pc' = "join"
    /\ UNCHANGED <<cmdline, last_probe, net, task, hosts, flake_show, targets, path, calls, gcmd, idx,
                   probes, trace>>

\* a thread ends: its function returned or raised, and the result is recorded
\* for its host alone
FinishOrRetry(i, outcome) ==
    IF outcome = "error"
    THEN UNCHANGED <<tpc, results>>
    ELSE /\ tpc' = [tpc EXCEPT ![i] = "finished"]
         /\ results' = [results EXCEPT ![i] = outcome]

Finish(i, outcome) ==
    /\ tpc' = [tpc EXCEPT ![i] = "finished"]
    /\ results' = [results EXCEPT ![i] = outcome]

\* the join of all threads
AllJoinedOrFirstError ==
    \/ \A i \in Hosts : tpc[i] = "finished"
    \/ \E i \in Hosts : results[i] = "error"

AllJoined == \A i \in Hosts : tpc[i] = "finished"

\* _reraise_errors: the group run raises when any host's result is an error
ReraiseErrorsNever(res) == FALSE

ReraiseErrors(res) == \E i \in 1..Len(res) : res[i] = "error"

(***************************************************************************)
(* deploy_nixos.deploy and build_local.build_local, per host               *)
(***************************************************************************)
\* answers of "nix flake archive --to ssh://target --json"
ArchiveResponses ==
    {[rc |-> 1, valid |-> FALSE, obj |-> {}],
     [rc |-> 0, valid |-> FALSE, obj |-> {}],
     [rc |-> 0, valid |-> TRUE, obj |-> {<<"url", "/nix/store/a">>}],
     [rc |-> 0, valid |-> TRUE, obj |-> {<<"path", "/nix/store/a">>}]}

\* run_local(check=True), json.loads and data["path"] each raise on failure
ArchiveRaisesMissingTolerated(resp) == resp.rc # 0 \/ ~resp.valid

ArchiveRaises(resp) == resp.rc # 0 \/ ~resp.valid \/ ~HasKey(resp.obj, "path")

ArchivePath(resp) ==
    IF HasKey(resp.obj, "path") THEN Lookup(resp.obj, "path") ELSE "none"

\* h.run_local(["nix", "flake", "archive", ...]); json.loads; data["path"]
Archive(i) ==
    /\ pc = "join"
    /\ tpc[i] = "archive"
    /\ calls' = [calls EXCEPT ![i].archive = @ + 1]
    /\ cmdline' = [cmdline EXCEPT ![i].to = Target(targets[i])]
    /\ \E resp \in ArchiveResponses :
          IF ArchiveRaises(resp)
          THEN /\ Finish(i, "error")
               /\ UNCHANGED path
          ELSE /\ path' = [path EXCEPT ![i] = ArchivePath(resp)]
               /\ tpc' = [tpc EXCEPT ![i] = "switch"]
               /\ UNCHANGED results
    /\ UNCHANGED <<last_probe, net, task, hosts, flake_show, targets, pc, gcmd, idx, probes, trace>>

\* h.run(f"{command} switch ... --flake {path}#{hostname}")
Switch(i) ==
    /\ pc = "join"
    /\ tpc[i] = "switch"
    /\ calls' = [calls EXCEPT ![i].switch = @ + 1]
    /\ cmdline' = [cmdline EXCEPT ![i].switch = SwitchLine(targets[i], path[i])]
    /\ \E rc \in {0, 1} : Finish(i, IF rc = 0 THEN "ok" ELSE "error")
    /\ UNCHANGED <<last_probe, net, task, hosts, flake_show, targets, pc, path, gcmd, idx,
                   probes, trace>>

\* h.run_local(["nixos-rebuild", "build", ...])
BuildLocal(i) ==
    /\ pc = "join"
    /\ tpc[i] = "build"
    /\ calls' = [calls EXCEPT ![i].build = @ + 1]
    /\ cmdline' = [cmdline EXCEPT ![i].build = BuildHostname(targets[i])]
    /\ \E rc \in {0, 1} : Finish(i, IF rc = 0 THEN "ok" ELSE "error")
    /\ UNCHANGED <<last_probe, net, task, hosts, flake_show, targets, pc, path, gcmd, idx,
                   probes, trace>>

\* g.run_function(deploy) and g.run_function(build_local) return or raise
JoinFunction ==
    /\ pc = "join"
    /\ task \in {"deploy", "build_local"}
    /\ AllJoined
    /\ pc' = IF ReraiseErrors(results) THEN "failed" ELSE "done"
    /\ UNCHANGED <<cmdline, last_probe, net, task, hosts, flake_show, targets, tpc, path, results, calls,
                   gcmd, idx, probes, trace>>

(***************************************************************************)
(* cleanup_gcroots                                                         *)
(***************************************************************************)
\* the remote command of the current g.run on one host
RemoteRun(i) ==
    /\ pc = "join"
    /\ tpc[i] = "remote"
    /\ calls' = IF gcmd = 1 THEN [calls EXCEPT ![i].gc1 = @ + 1]
                            ELSE [calls EXCEPT ![i].gc2 = @ + 1]
    /\ \E rc \in {0, 1} : Finish(i, IF rc = 0 THEN "ok" ELSE "error")
    /\ UNCHANGED <<cmdline, last_probe, net, task, hosts, flake_show, targets, pc, path, gcmd, idx,
                   probes, trace>>

\* g.run(...) returns or raises; after the first, the second g.run starts
JoinRun ==
    /\ pc = "join"
    /\ task = "cleanup_gcroots"
    /\ AllJoined
    /\ IF ReraiseErrors(results)
       THEN /\ pc' = "failed"
            /\ UNCHANGED <<tpc, results, gcmd>>
       ELSE IF gcmd = 1
       THEN /\ gcmd' = 2
            /\ tpc' = [i \in Hosts |-> "remote"]
            /\ results' = [i \in Hosts |-> "unset"]
            /\ UNCHANGED pc
       ELSE /\ pc' = "done"
            /\ UNCHANGED <<tpc, results, gcmd>>
    /\ UNCHANGED <<cmdline, last_probe, net, task, hosts, flake_show, targets, path, calls, idx, probes,
                   trace>>

(***************************************************************************)
(* reboot and wait_for_port                                                *)
(***************************************************************************)
Event(i, ev, ok) == [host |-> i, ev |-> ev, ok |-> ok]

\* for h in get_hosts(hosts): the loop is entered, or over at once
RebootLoop ==
    /\ pc = "resolved"
    /\ task = "reboot"
    /\ idx' = 1
    /\ pc' = IF N = 0 THEN "done" ELSE "reboot_cmd"
    /\ UNCHANGED <<cmdline, last_probe, net, task, hosts, flake_show, targets, tpc, path, results, calls,
                   gcmd, probes, trace>>

\* h.run(...) checks the exit status: where reboot is after the command
AfterRebootCmdUnchecked(rc) == "wait_down"

AfterRebootCmd(rc) == IF rc = 0 THEN "wait_down" ELSE "failed"

\* h.run("sudo reboot &"): raises on a failed command, else the wait begins
RebootCmd ==
    /\ pc = "reboot_cmd"
    /\ calls' = [calls EXCEPT ![idx].reboot = @ + 1]
    /\ \E rc \in {0, 1} :
          /\ trace' = Append(trace, Event(idx, "reboot", rc = 0))
          /\ pc' = AfterRebootCmd(rc)
    /\ probes' = 0
    /\ UNCHANGED <<cmdline, last_probe, net, task, hosts, flake_show, targets, tpc, path, results, gcmd, idx>>

\* wait_for_port: whether the loop breaks after a connection attempt
BreaksOnConnect(shutdown, connected) == connected

BreaksOnRefusal(shutdown, connected) == ~connected

BreaksOrGivesUp(shutdown, connected) ==
    IF connected THEN ~shutdown ELSE (shutdown \/ probes >= 1)

Breaks(shutdown, connected) == IF connected THEN ~shutdown ELSE shutdown

\* where reboot continues once wait_for_port(..., shutdown) returned
AfterWaitNoRecovery(shutdown, i, n) ==
    IF i < n THEN [pc |-> "reboot_cmd", idx |-> i + 1] ELSE [pc |-> "done", idx |-> i]

AfterWait(shutdown, i, n) ==
    IF shutdown THEN [pc |-> "wait_up", idx |-> i]
    ELSE IF i < n THEN [pc |-> "reboot_cmd", idx |-> i + 1]
    ELSE [pc |-> "done", idx |-> i]

\* how socket.create_connection((host, port), timeout=1) can end: connected,
\* or with ConnectionRefusedError, socket.timeout or socket.gaierror
ProbeOutcomes == {"connected", "refused", "timeout", "dns"}

\* except OSError: the errors of a connection attempt it catches
CaughtConnectionErrorsOnly(outcome) == outcome = "refused"

CaughtAsOSError(outcome) == outcome \in {"refused", "timeout", "dns"}

\* one iteration of the loop of wait_for_port(h.host, port, shutdown)
Probe(shutdown) ==
    /\ pc = IF shutdown THEN "wait_down" ELSE "wait_up"
    /\ probes < MaxProbes
    /\ \E outcome \in ProbeOutcomes :
          LET connected == outcome = "connected"
          IN  /\ last_probe' = outcome
              /\ trace' = Append(trace,
                     Event(idx, IF shutdown THEN "probe_down" ELSE "probe_up",
                           connected))
              /\ IF ~connected /\ ~CaughtAsOSError(outcome)
                 THEN /\ pc' = "failed"
                      /\ UNCHANGED <<idx, probes>>
                 ELSE IF Breaks(shutdown, connected)
                 THEN /\ pc' = AfterWait(shutdown, idx, N).pc
                      /\ idx' = AfterWait(shutdown, idx, N).idx
                      /\ probes' = 0
                 ELSE /\ probes' = probes + 1
                      /\ UNCHANGED <<pc, idx>>
    /\ UNCHANGED <<cmdline, net, task, hosts, flake_show, targets, tpc, path, results, calls, gcmd>>

WaitForDown == Probe(TRUE)

WaitForUp == Probe(FALSE)

(***************************************************************************)
(* Specification                                                           *)
(***************************************************************************)
Next ==
    \/ GetHostsInventory
    \/ GetHostsExplicit
    \/ StartGroup
    \/ \E i \in Hosts : Archive(i)
    \/ \E i \in Hosts : Switch(i)
    \/ \E i \in Hosts : BuildLocal(i)
    \/ JoinFunction
    \/ \E i \in Hosts : RemoteRun(i)
    \/ JoinRun
    \/ RebootLoop
    \/ RebootCmd
    \/ WaitForDown
    \/ WaitForUp

Spec == Init /\ [][Next]_vars

(***************************************************************************)
(* reboot against hosts that do reboot: each host that received the reboot *)
(* command goes down, comes back and stays reachable. Connection attempts  *)
(* see the host as it is, the sleeps of wait_for_port are steps of their   *)
(* own, and the attempts are not counted.                                  *)
(***************************************************************************)
\* host i received "sudo reboot &"
RebootReceived(i) == \E j \in 1..Len(trace) : trace[j] = Event(i, "reboot", TRUE)

HostGoesDown(i) ==
    /\ i \in Hosts
    /\ RebootReceived(i)
    /\ net[i] = "running"
    /\ net' = [net EXCEPT ![i] = "down"]
    /\ UNCHANGED <<task, hosts, flake_show, targets, pc, tpc, path, results, calls,
                   gcmd, idx, probes, trace, cmdline, last_probe>>

HostComesBack(i) ==
    /\ i \in Hosts
    /\ net[i] = "down"
    /\ net' = [net EXCEPT ![i] = "back"]
    /\ UNCHANGED <<task, hosts, flake_show, targets, pc, tpc, path, results, calls,
                   gcmd, idx, probes, trace, cmdline, last_probe>>

\* socket.create_connection against the host as it is
Connect(i) == IF net[i] = "down" THEN "refused" ELSE "connected"

\* one connection attempt of wait_for_port(h.host, port, shutdown)
LiveProbe(shutdown) ==
    /\ pc = IF shutdown THEN "wait_down" ELSE "wait_up"
    /\ LET connected == Connect(idx) = "connected"
       IN  /\ last_probe' = Connect(idx)
           /\ IF Breaks(shutdown, connected)
              THEN /\ pc' = AfterWait(shutdown, idx, N).pc
                   /\ idx' = AfterWait(shutdown, idx, N).idx
              ELSE /\ pc' = IF shutdown THEN "sleep_down" ELSE "sleep_up"
                   /\ UNCHANGED idx
    /\ UNCHANGED <<task, hosts, flake_show, targets, tpc, path, results, calls,
                   gcmd, probes, trace, cmdline, net>>

\* time.sleep(1) after a connecting attempt, time.sleep(0.01) after a failing one
LiveSleep ==
    /\ pc \in {"sleep_down", "sleep_up"}
    /\ pc' = IF pc = "sleep_down" THEN "wait_down" ELSE "wait_up"
    /\ UNCHANGED <<task, hosts, flake_show, targets, tpc, path, results, calls,
                   gcmd, idx, probes, trace, cmdline, last_probe, net>>

\* the steps of the reboot task itself
RebootStep ==
    \/ GetHostsInventory
    \/ GetHostsExplicit
    \/ RebootLoop
    \/ RebootCmd
    \/ LiveProbe(TRUE)
    \/ LiveProbe(FALSE)
    \/ LiveSleep

NextLive ==
    \/ RebootStep
    \/ \E i \in Hosts : HostGoesDown(i)
    \/ \E i \in Hosts : HostComesBack(i)

InitLive == Init /\ task = "reboot"

\* the task keeps running, and every host does what a rebooting host does
SpecLive ==
    /\ InitLive
    /\ [][NextLive]_vars
    /\ WF_vars(RebootStep)
    /\ \A i \in 1..MaxHosts : WF_vars(HostGoesDown(i)) /\ WF_vars(HostComesBack(i))

(***************************************************************************)
(* Properties                                                              *)
(***************************************************************************)
Ended == pc \in {"done", "failed"}

\* C1: when the parallel run of deploy ends, every host of the target list
\* has had its unit executed and has exactly one outcome of its own, whatever
\* the units of the other hosts did; no host is omitted.
EveryHostYieldsOneOutcome ==
    (task = "deploy" /\ Ended) =>
        /\ Len(results) = Len(targets)
        /\ \A i \in Hosts :
              /\ tpc[i] = "finished"
              /\ calls[i].archive = 1
              /\ results[i] \in {"ok", "error"}
              /\ results[i] = "ok" => (path[i] # "none" /\ calls[i].switch = 1)

\* C1 witness: a run of two hosts over, one unit failed and the other succeeded
OneFailsOtherSucceeds ==
    /\ task = "deploy" /\ Ended /\ N = 2
    /\ results[1] = "error"
    /\ results[2] = "ok"

\* the events of reboot's trace, in their order within one host's cycle
Rank(ev) ==
    CASE ev = "reboot" -> 1
      [] ev = "probe_down" -> 2
      [] ev = "probe_up" -> 3

\* C2: in reboot every host's events are issue-reboot, then shutdown probing,
\* then start probing, and hosts are handled one after the other: an event of
\* host i+1 follows only the connecting start probe of host i.
RebootStrictlySequential ==
    task = "reboot" =>
        /\ trace # <<>> => (trace[1].ev = "reboot" /\ trace[1].host = 1)
        /\ \A j \in 1..(Len(trace) - 1) :
              LET a == trace[j]
                  b == trace[j + 1]
              IN  /\ a.host <= b.host
                  /\ a.ev = "reboot" => (a.ok /\ b.ev = "probe_down" /\ b.host = a.host)
                  /\ a.host = b.host =>
                        (Rank(a.ev) <= Rank(b.ev) /\ b.ev # "reboot")
                  /\ a.host < b.host =>
                        /\ b.host = a.host + 1
                        /\ a.ev = "probe_up" /\ a.ok
                        /\ b.ev = "reboot"

\* C2 witness: two hosts rebooted, with repeated probes on the way
TwoHostsRebooted ==
    /\ task = "reboot" /\ pc = "done" /\ N = 2
    /\ Len(trace) > 6

IsDownProbe(e) == e.ev = "probe_down"

IsUpProbe(e) == e.ev = "probe_up"

\* the probes of host h's wait_for_port call, shutdown or not
ProbesOf(h, shutdown) ==
    LET mine(e) == e.host = h /\ e.ev = IF shutdown THEN "probe_down" ELSE "probe_up"
    IN  SelectSeq(trace, mine)

\* whether host h's wait_for_port(shutdown=True) has returned
DownReturned(h) == h < idx \/ (h = idx /\ pc \in {"wait_up", "done"})

\* whether host h's wait_for_port(shutdown=False) has returned
UpReturned(h) == h < idx \/ (h = idx /\ pc = "done")

\* C3: waitForDown has returned exactly when its last probe failed to connect,
\* and every probe before the last one connected: k connecting probes, then
\* the failing one, k+1 in all.
WaitForDownReturnsAtFirstFailure ==
    task = "reboot" =>
        \A h \in Hosts :
            LET p == ProbesOf(h, TRUE)
            IN  /\ \A j \in 1..(Len(p) - 1) : p[j].ok
                /\ DownReturned(h) <=> (Len(p) > 0 /\ ~p[Len(p)].ok)

\* C3 witness: a shutdown wait that returned after a connecting probe
DownAfterConnectingProbe ==
    /\ task = "reboot" /\ N > 0 /\ DownReturned(1)
    /\ Len(ProbesOf(1, TRUE)) = 2

\* C4: waitForUp has returned exactly when its last probe connected, and every
\* probe before the last one failed: k failing probes, then the connecting
\* one, k+1 in all.
WaitForUpReturnsAtFirstConnect ==
    task = "reboot" =>
        \A h \in Hosts :
            LET p == ProbesOf(h, FALSE)
            IN  /\ \A j \in 1..(Len(p) - 1) : ~p[j].ok
                /\ UpReturned(h) <=> (Len(p) > 0 /\ p[Len(p)].ok)

\* C4 witness: a start wait that returned after a failing probe
UpAfterFailingProbe ==
    /\ task = "reboot" /\ N > 0 /\ UpReturned(1)
    /\ Len(ProbesOf(1, FALSE)) = 2

\* C5: a deploy run ends in success exactly when every host's unit succeeded;
\* when it ends in failure some unit failed and every unit has run to its end.
OverallStatusIsConjunction ==
    (task = "deploy" /\ Ended) =>
        /\ pc = "done" <=> \A i \in Hosts : results[i] = "ok"
        /\ pc = "failed" =>
              /\ \E i \in Hosts : results[i] = "error"
              /\ \A i \in Hosts : tpc[i] = "finished"

\* C5 witness: the first host's apply failed, the second host's succeeded, and
\* the run ended in failure
ApplyFailsOnFirstHost ==
    /\ task = "deploy" /\ pc = "failed" /\ N = 2
    /\ results[1] = "error" /\ calls[1].switch = 1
    /\ results[2] = "ok"

\* C6: in a host's deploy unit apply is invoked only after publish gave a
\* parsed path; a host whose publish failed never sees apply and carries the
\* failure itself, and every other host still has its publish and, after a
\* parsed path, its apply.
ApplyOnlyAfterPublish ==
    task = "deploy" =>
        \A i \in Hosts :
            /\ calls[i].switch > 0 => (path[i] # "none" /\ calls[i].archive = 1)
            /\ (tpc[i] = "finished" /\ path[i] = "none") =>
                  (calls[i].switch = 0 /\ results[i] = "error")
            /\ Ended => (calls[i].archive = 1 /\
                         (path[i] # "none" => calls[i].switch = 1))

\* C6 witness: publish failed for the first host, the second host was
\* published and applied
PublishFailsOnFirstHost ==
    /\ task = "deploy" /\ Ended /\ N = 2
    /\ path[1] = "none" /\ results[1] = "error"
    /\ path[2] # "none" /\ results[2] = "ok"

\* C7: nothing is started for any host before the target list is resolved,
\* and an inventory query that fails, does not parse or lacks the
\* configuration collection aborts the invocation with no target list and no
\* command or probe for any host.
ResolutionAbortsBeforeTasks ==
    /\ pc = "get_hosts" => (calls = <<>> /\ trace = <<>> /\ tpc = <<>>)
    /\ (flake_show.queried /\
        (flake_show.rc # 0 \/ ~flake_show.valid
           \/ ~HasKey(flake_show.obj, "nixosConfigurations"))) =>
          /\ pc = "aborted"
          /\ targets = <<>> /\ calls = <<>> /\ trace = <<>> /\ tpc = <<>>

\* C7 witness: the inventory parsed but had no configuration collection
InventoryLacksCollection ==
    /\ pc = "aborted"
    /\ flake_show.valid
    /\ ~HasKey(flake_show.obj, "nixosConfigurations")

\* C8: in cleanup_gcroots a failure of the first command on one host keeps
\* neither command from being executed on another host.
GroupCommandIsolation ==
    (task = "cleanup_gcroots" /\ Ended) =>
        \A b \in Hosts :
            (\E a \in Hosts \ {b} : gcmd = 1 /\ results[a] = "error") =>
                (calls[b].gc1 = 1 /\ calls[b].gc2 = 1)

\* C9: for a non-empty explicit host list the target list has one entry per
\* comma-separated token, in token order, each with the address token +
\* ".nix-community.org".
ExplicitSpecOneHostPerToken ==
    (hosts # <<>> /\ pc # "get_hosts") =>
        \E ts \in TokenSeqs :
            /\ JoinComma(ts) = hosts
            /\ Len(targets) = Len(ts)
            /\ \A k \in 1..Len(ts) : targets[k].host = ts[k] \o DomainSuffix

\* C9 witness: a list of two tokens, one of them darwin, resolved
TwoTokensResolved ==
    /\ hosts = Build01 \o <<Comma>> \o Darwin02
    /\ Len(targets) = 2

\* C10: a darwin token gets the login hetzner, the token darwin01 gets the
\* login customer, and every other token keeps the default login.
IdentityDependsOnToken ==
    (hosts # <<>> /\ pc # "get_hosts") =>
        \A ts \in TokenSeqs :
            JoinComma(ts) = hosts =>
                \A k \in 1..Len(ts) :
                    k <= Len(targets) =>
                        targets[k].user =
                            IF ts[k] = Darwin01 THEN "customer"
                            ELSE IF Contains(ts[k], Darwin) THEN "hetzner"
                            ELSE NoUser

\* C11: the deploy unit picks its command by the host's platform alone. For
\* a host that is not darwin the transfer goes to the bare address and the
\* activation is "sudo nixos-rebuild"; for a darwin host the transfer goes to
\* user@address and the activation is "darwin-rebuild" without sudo; the
\* flake reference is the published path with the derived attribute name.
CommandFollowsPlatform ==
    task = "deploy" =>
        \A i \in Hosts :
            LET h == targets[i]
                darwin == Contains(h.host, Darwin)
            IN  /\ calls[i].archive > 0 =>
                      /\ cmdline[i].to.host = h.host
                      /\ cmdline[i].to.userinfo = IF darwin THEN h.user ELSE ""
                /\ calls[i].switch > 0 =>
                      /\ cmdline[i].switch.command =
                            IF darwin THEN "darwin-rebuild" ELSE "sudo nixos-rebuild"
                      /\ cmdline[i].switch.path = path[i]
                      /\ path[i] # "none"
                      /\ cmdline[i].switch.attr = Remove(h.host, DomainSuffix)

\* C11 witness: a darwin host and another host both activated in one run
BothPlatformsActivated ==
    /\ task = "deploy" /\ N = 2
    /\ Contains(targets[1].host, Darwin) /\ calls[1].switch = 1
    /\ ~Contains(targets[2].host, Darwin) /\ calls[2].switch = 1

\* C12: the attribute name is the host's name as it was given: with the
\* domain suffix appended again it is the address get_hosts built, in deploy
\* and in build_local alike.
AttributeNameInvertsResolution ==
    \A i \in Hosts :
        /\ DeployHostname(targets[i]) = BuildHostname(targets[i])
        /\ (task = "deploy" /\ calls[i].switch > 0) =>
              cmdline[i].switch.attr \o DomainSuffix = targets[i].host
        /\ (task = "build_local" /\ calls[i].build > 0) =>
              cmdline[i].build \o DomainSuffix = targets[i].host

\* C13: build_local issues the local build for every host and nothing else:
\* no transfer, no activation, no remote command, no probe.
BuildLocalStaysLocal ==
    task = "build_local" =>
        /\ trace = <<>>
        /\ last_probe = "none"
        /\ \A i \in Hosts :
              /\ calls[i].archive = 0 /\ calls[i].switch = 0
              /\ calls[i].gc1 = 0 /\ calls[i].gc2 = 0 /\ calls[i].reboot = 0
              /\ cmdline[i].to = NoLines.to
              /\ cmdline[i].switch = NoLines.switch
              /\ path[i] = "none"
              /\ Ended => calls[i].build = 1

\* C13 witness: a build of two hosts over
TwoHostsBuilt ==
    /\ task = "build_local" /\ Ended /\ N = 2
    /\ calls[1].build = 1 /\ calls[2].build = 1

\* C14: as long as no start probe of a host has connected, however many were
\* made, waitForUp has not returned, reboot has not ended and no later host
\* has been sent the reboot command.
WaitForUpNeverGivesUp ==
    task = "reboot" =>
        \A h \in Hosts :
            (RebootReceived(h) /\ \A j \in 1..Len(ProbesOf(h, FALSE)) :
                                      ~ProbesOf(h, FALSE)[j].ok) =>
                /\ ~UpReturned(h)
                /\ pc # "done"
                /\ \A later \in (h + 1)..N : calls[later].reboot = 0

\* C14 witness: every start probe followed so far has failed, the task still
\* waits for the first host and the second host is untouched
StillWaitingForUp ==
    /\ task = "reboot" /\ N = 2 /\ idx = 1
    /\ pc = "wait_up" /\ probes = MaxProbes
    /\ calls[2].reboot = 0

\* C15: a probe that ends in any error acts as a failed connection attempt:
\* it ends waitForDown, it makes waitForUp try again, and it never fails the
\* reboot task, which fails only on a reboot command.
ProbeErrorsAreFailedConnects ==
    (task = "reboot" /\ trace # <<>>) =>
        LET last == trace[Len(trace)]
        IN  /\ last.ev # "reboot" => (last.ok <=> last_probe = "connected")
            /\ (last.ev = "probe_down" /\ last_probe # "connected") =>
                  (pc = "wait_up" /\ idx = last.host /\ probes = 0)
            /\ (last.ev = "probe_up" /\ last_probe # "connected") =>
                  (pc = "wait_up" /\ idx = last.host /\ probes > 0)
            /\ pc = "failed" => (last.ev = "reboot" /\ ~last.ok)

\* C15 witness: a name resolution failure ended waitForDown
ResolutionFailureEndsWaitForDown ==
    /\ task = "reboot" /\ trace # <<>>
    /\ trace[Len(trace)].ev = "probe_down"
    /\ last_probe = "dns"
    /\ pc = "wait_up"

\* C16: the descriptor of a token is the same in every explicit list that
\* holds the token, whatever the other tokens are.
DescriptorDependsOnTokenOnly ==
    (hosts # <<>> /\ pc # "get_hosts") =>
        \A ts \in TokenSeqs, other \in TokenSeqs :
            (JoinComma(ts) = hosts /\ Len(other) > 0) =>
                \A k \in 1..Len(ts), m \in 1..Len(other) :
                    (k <= Len(targets) /\ ts[k] = other[m]) =>
                        targets[k] = ExplicitHosts(JoinComma(other))[m]

\* the reboot commands sent to host h
RebootsOf(h) ==
    LET mine(e) == e.host = h /\ e.ev = "reboot"
    IN  SelectSeq(trace, mine)

\* C17: no command is repeated: publish, activation and the reboot command
\* are each invoked at most once per host, failed or not.
NothingIsRetried ==
    \A i \in Hosts :
        /\ calls[i].archive <= 1
        /\ calls[i].switch <= 1
        /\ calls[i].reboot <= 1
        /\ Len(RebootsOf(i)) <= 1

\* C17 witness: a deploy over whose first host failed in its activation
ActivationFailedOnce ==
    /\ task = "deploy" /\ Ended /\ N = 1
    /\ results[1] = "error"
    /\ calls[1].archive = 1 /\ calls[1].switch = 1

\* C18: against hosts that go down after the reboot command, come back and
\* stay reachable, and with the task kept running, reboot comes to an end.
RebootEndsWhenHostsReboot == <>(pc \in {"done", "failed", "aborted"})

\* host h's reboot command failed
RebootRefused(h) == \E j \in 1..Len(trace) : trace[j] = Event(h, "reboot", FALSE)

\* C19 as claimed: a host whose reboot command failed is not polled, and the
\* hosts after it are still rebooted by the time the task ends.
RebootFailureSkipsHostOnly ==
    task = "reboot" =>
        \A h \in Hosts :
            RebootRefused(h) =>
                /\ ProbesOf(h, TRUE) = <<>> /\ ProbesOf(h, FALSE) = <<>>
                /\ pc \in {"done", "failed"} =>
                      \A later \in (h + 1)..N : calls[later].reboot = 1

\* C19 as amended: a host is polled only after its reboot command succeeded;
\* a host whose reboot command failed is not polled, the task fails there and
\* no later host is sent the reboot command.
RebootFailureEndsTask ==
    task = "reboot" =>
        \A h \in Hosts :
            /\ (ProbesOf(h, TRUE) # <<>> \/ ProbesOf(h, FALSE) # <<>>) =>
                  RebootReceived(h)
            /\ RebootRefused(h) =>
                  /\ ProbesOf(h, TRUE) = <<>> /\ ProbesOf(h, FALSE) = <<>>
                  /\ pc = "failed" /\ idx = h
                  /\ \A later \in (h + 1)..N : calls[later].reboot = 0

\* C19 witness: the first of two hosts refused the reboot command
FirstHostRefusesReboot ==
    /\ task = "reboot" /\ N = 2
    /\ RebootRefused(1)
    /\ calls[2].reboot = 0

====
